---- MODULE Spec2Model ----
(***************************************************************************)
(* OPIC-HITS frontier backend (crawlfrontier/contrib/backends/opic/        *)
(* backend.py).  The orchestrator OpicHitsBackend is translated from its   *)
(* source.  The collaborators it drives (graph store, page store, score    *)
(* engine, frequency estimator, change detector, scheduler) live in        *)
(* modules of the repository that are not part of the source tree at hand; *)
(* they are modelled from their contracts in the specification (sections   *)
(* 4.1 to 4.5) and marked as such in the model map.                        *)
(*                                                                         *)
(* Spec      the top-level operations, one after the other                 *)
(* SpecFail  the same, with store calls that may raise StoreUnavailable    *)
(* SpecConc  add_seeds and page_crawled calls over disjoint pages running  *)
(*           concurrently, one store call at a time                        *)
(***************************************************************************)
EXTENDS Integers, Sequences, FiniteSets, TLC

\* ------------------------------------------------------------------ bounds
NPages == 2          \* fingerprints 1..NPages
MaxLinks == 2        \* longest list of seeds / links handed to one call
MaxN == 2            \* largest max_n_requests
MaxTime == 1         \* the clock runs 0..MaxTime
MaxSteps == 4        \* steps (operations and clock ticks) in one behaviour

Pages == 1..NPages
Bodies == {"", "a", "b"}
NoneBody == "<None>"

Max(a, b) == IF a >= b THEN a ELSE b
Min(a, b) == IF a <= b THEN a ELSE b
Range(f) == {f[i] : i \in DOMAIN f}

RECURSIVE SumOver(_, _)
SumOver(f, S) == IF S = {} THEN 0
                 ELSE LET x == CHOOSE y \in S : \A z \in S : y <= z
                      IN f[x] + SumOver(f, S \ {x})

\* the lists of at most n elements of S in increasing order
RECURSIVE SeqsUpTo(_, _)
SeqsUpTo(S, n) ==
    IF n = 0 THEN {<<>>}
    ELSE LET shorter == SeqsUpTo(S, n - 1)
         IN shorter \cup {qx \in {Append(q, x) : q \in shorter, x \in S} :
                           \A i \in 1..(Len(qx) - 1) : qx[i] < qx[i + 1]}
\* The lists of seeds or links handed to one call.  What a call leaves behind
\* is the same for every order of a list and with its repetitions removed
\* (each store call concerns one fingerprint), so one order stands for all.
LinkLists == SeqsUpTo(1..NPages, MaxLinks)

\* ---------------------------------------------------------- links, requests
\* A link or seed handed in by the frontier manager: the fingerprint is
\* derived from the url, so url and domain are functions of it.
Link(fp) == [fingerprint |-> fp, url |-> <<"url", fp>>, domain |-> <<"domain", fp>>]
NullRequest == [fingerprint |-> 0, url |-> <<"None", 0>>, domain |-> <<"None", 0>>]

\* ------------------------------------------------------- 4.1 graph store
graph_start_batch(g) == [g EXCEPT !.batch = TRUE]
graph_end_batch(g) ==
    [g EXCEPT !.nodes = @ \cup g.snodes, !.edges = @ \cup g.sedges,
              !.snodes = {}, !.sedges = {}, !.batch = FALSE]
graph_nodes(g) == g.nodes \cup g.snodes
graph_edges(g) == g.edges \cup g.sedges
graph_add_node(g, fp) ==
    IF fp \in graph_nodes(g) THEN g
    ELSE IF g.batch THEN [g EXCEPT !.snodes = @ \cup {fp}]
    ELSE [g EXCEPT !.nodes = @ \cup {fp}]
\* add_edge registers its endpoints when they are missing (auto-create).
graph_add_edge(g, src, dst) ==
    LET g1 == graph_add_node(graph_add_node(g, src), dst)
    IN IF <<src, dst>> \in graph_edges(g1) THEN g1
       ELSE IF g1.batch THEN [g1 EXCEPT !.sedges = @ \cup {<<src, dst>>}]
       ELSE [g1 EXCEPT !.edges = @ \cup {<<src, dst>>}]
graph_neighbors(g, fp) == {q \in Pages : <<fp, q>> \in graph_edges(g)}
\* close() ends an open batch; whether the additions staged in it are kept
\* (committed) or lost is not stated anywhere, so both may happen
graph_close(g, keep) ==
    [g EXCEPT !.nodes = IF keep THEN @ \cup g.snodes ELSE @,
              !.edges = IF keep THEN @ \cup g.sedges ELSE @,
              !.snodes = {}, !.sedges = {}, !.batch = FALSE]

\* ----------------------------------------------------------- page store
pages_start_batch(p) == [p EXCEPT !.batch = TRUE]
pages_end_batch(p) == [p EXCEPT !.rows = @ \cup p.srows, !.srows = {}, !.batch = FALSE]
pages_rows(p) == p.rows \cup p.srows
pages_add(p, fp, url, domain) ==
    LET row == [fingerprint |-> fp, url |-> url, domain |-> domain]
        keep(R) == {r \in R : r.fingerprint # fp}
    IN IF p.batch THEN [p EXCEPT !.rows = keep(@), !.srows = keep(@) \cup {row}]
       ELSE [p EXCEPT !.rows = keep(@) \cup {row}, !.srows = keep(@)]
\* the rows stored for fp: empty (None) or one row
pages_get(p, fp) == {r \in pages_rows(p) : r.fingerprint = fp}
pages_close(p, keep) ==
    [p EXCEPT !.rows = IF keep THEN @ \cup p.srows ELSE @, !.srows = {}, !.batch = FALSE]

\* ------------------------------------------------ 4.2 score engine (OPIC)
InitCash == 2
opic_add_page(o, fp) ==
    [o EXCEPT !.reg = @ \cup {fp}, !.h[fp] = 0, !.a[fp] = 0, !.cash[fp] = InitCash]
opic_mark_update(o, fp) ==
    IF fp \in o.reg THEN [o EXCEPT !.marked = @ \cup {fp}] ELSE o
opic_get_scores(o, fp) == IF fp \in o.reg THEN <<o.h[fp], o.a[fp]>> ELSE <<0, 0>>
\* One redistribution cycle.  The contributors are the pages marked since
\* the last cycle that hold cash; a contributor shares its cash equally
\* among its out-neighbours, or among all pages when it has none; what the
\* integer division leaves over stays with the contributor.  A page's
\* authority grows by the cash it receives; its hub score is the sum of the
\* authorities of its out-neighbours.
opic_update(o, g) ==
    LET contrib == {p \in o.reg \cap o.marked : o.cash[p] > 0}
        targets(p) == LET outs == graph_neighbors(g, p) \cap o.reg
                      IN IF outs = {} THEN o.reg ELSE outs
        share(p) == o.cash[p] \div Cardinality(targets(p))
        given == [p \in Pages |-> IF p \in contrib
                                  THEN share(p) * Cardinality(targets(p)) ELSE 0]
        received == [q \in Pages |->
                       SumOver([p \in Pages |-> share(p)],
                               {p \in contrib : q \in targets(p)})]
        a1 == [p \in Pages |-> o.a[p] + received[p]]
        h1 == [p \in Pages |-> IF p \in o.reg
                               THEN SumOver(a1, graph_neighbors(g, p) \cap o.reg)
                               ELSE 0]
        cash1 == [p \in Pages |-> o.cash[p] - given[p] + received[p]]
    IN [opic |-> [o EXCEPT !.h = h1, !.a = a1, !.cash = cash1, !.marked = {}],
        h_updated |-> {p \in Pages : h1[p] # o.h[p]},
        a_updated |-> {p \in Pages : a1[p] # o.a[p]}]

\* -------------------------------------------- 4.3 frequency estimator
FreqScale == 4
MinFreq == 1
MaxFreq == 4
freqest_add(f, fp, now) ==
    [f EXCEPT !.reg = @ \cup {fp}, !.observed = @ \ {fp}, !.interval[fp] = 0,
              !.last_change[fp] = now, !.last_seen[fp] = now]
freqest_refresh(f, fp, changed, now) ==
    IF fp \notin f.reg THEN f
    ELSE IF changed
    THEN LET elapsed == now - f.last_change[fp]
         IN [f EXCEPT !.observed = @ \cup {fp},
                      !.interval[fp] = IF fp \in f.observed
                                       THEN (@ + elapsed) \div 2 ELSE elapsed,
                      !.last_change[fp] = now, !.last_seen[fp] = now]
    ELSE [f EXCEPT !.last_seen[fp] = now]
\* DEFAULT_FREQ is once a month; the model's unit of rate is that default.
DEFAULT_FREQ == 1
freqest_frequency(f, fp) ==
    IF fp \notin f.reg \/ fp \notin f.observed THEN DEFAULT_FREQ
    ELSE IF f.interval[fp] = 0 THEN MaxFreq
    ELSE Max(MinFreq, Min(MaxFreq, FreqScale \div f.interval[fp]))

\* ------------------------------------------------- 4.4 change detector
\* the digest of a body (the first bytes of its SHA-1)
SHA1(body) == CASE body = "" -> "da39a3ee"
                [] body = "a" -> "86f7e437"
                [] body = "b" -> "e9d71f5e"
                [] OTHER -> "00000000"
pagechange_update(c, fp, body) ==
    LET d == SHA1(body)
    IN IF fp \notin c.seen
       THEN [status |-> "NEW",
             db |-> [c EXCEPT !.seen = @ \cup {fp}, !.digest[fp] = d]]
       ELSE IF c.digest[fp] # d
       THEN [status |-> "UPDATED", db |-> [c EXCEPT !.digest[fp] = d]]
       ELSE [status |-> "UNCHANGED", db |-> c]

\* ------------------------------------------------------- 4.5 scheduler
scheduler_set_rate(s, fp, rate) ==
    [s EXCEPT !.entries = @ \cup {fp}, !.rate[fp] = rate]
scheduler_set_value(s, fp, value) ==
    [s EXCEPT !.entries = @ \cup {fp}, !.value[fp] = value]
scheduler_delete(s, fp) ==
    [s EXCEPT !.entries = @ \ {fp}, !.rate[fp] = 0, !.value[fp] = 0]
scheduler_priority(s, fp) == s.value[fp] * s.rate[fp]
\* the entry ranked first among S: highest priority, then lowest fingerprint
scheduler_best(s, S) ==
    CHOOSE p \in S : \A q \in S :
        \/ scheduler_priority(s, p) > scheduler_priority(s, q)
        \/ scheduler_priority(s, p) = scheduler_priority(s, q) /\ p <= q
RECURSIVE scheduler_top(_, _, _)
scheduler_top(s, S, k) ==
    IF k <= 0 \/ S = {} THEN <<>>
    ELSE LET p == scheduler_best(s, S)
         IN <<p>> \o scheduler_top(s, S \ {p}, k - 1)
scheduler_get_next_pages(s, k) == scheduler_top(s, s.entries, k)

\* =========================================================================
\* OpicHitsBackend
\* =========================================================================
VARIABLES
    graph,        \* self._graph
    pages,        \* self._pages
    opic,         \* self._opic
    freqest,      \* self._freqest
    pagechange,   \* self._pagechange
    scheduler,    \* self._scheduler
    pending,      \* self._pending_requests
    now,          \* the clock the frequency estimator reads
    nsteps,       \* how many steps have been taken
    call,         \* the top-level operation that ran last, with its arguments
    trace,        \* the collaborator calls that operation made, in order
    returned,     \* the list get_next_requests returned
    raised,       \* the exception that escaped the operation ("" when none)
    outstanding,  \* history: per page, dispatches still awaiting a result
    resolved,     \* history: per page, results processed since its last dispatch
    failed,       \* history: pages for which request_error has been processed
    crawls,       \* history: per page, how many page_crawled calls were processed
    repeated,     \* history: the last operation repeated the one before it
    conc,         \* the operations running concurrently (none in Spec)
    closed,       \* the stores on which close() has been called
    test          \* self._test; only frontier_stop reads it, and its value
                  \* ("True" or "False") is drawn at that first read

vars == <<graph, pages, opic, freqest, pagechange, scheduler, pending, now,
          nsteps, call, trace, returned, raised,
          outstanding, resolved, failed, crawls, repeated, conc, closed, test>>

\* The backend's objects as one record; the methods below map such records.
Backend ==
    [graph |-> graph, pages |-> pages, opic |-> opic, freqest |-> freqest,
     pagechange |-> pagechange, scheduler |-> scheduler, pending |-> pending,
     now |-> now, trace |-> <<>>, returned |-> <<>>, raised |-> "",
     closed |-> closed, test |-> test]

Call(s, name, fp) == [s EXCEPT !.trace = Append(@, <<name, fp>>)]
Truthy(body) == body \notin {NoneBody, ""}

\* the "changed" argument of refresh: page_status == pagechange.Status.UPDATED
refresh_changed_wrong_status(page_status) == page_status = "UNCHANGED"
refresh_changed(page_status) == page_status = "UPDATED"

_update_freqest(s, page_fingerprint, body) ==
    LET cls == IF Truthy(body)
               THEN pagechange_update(s.pagechange, page_fingerprint, body)
               ELSE [status |-> "None", db |-> s.pagechange]
        s1 == IF Truthy(body)
              THEN Call([s EXCEPT !.pagechange = cls.db],
                        "pagechange.update", page_fingerprint)
              ELSE s
        s2 == IF cls.status \in {"None", "NEW"}
              THEN Call([s1 EXCEPT !.freqest =
                            freqest_add(@, page_fingerprint, s.now)],
                        "freqest.add", page_fingerprint)
              ELSE Call([s1 EXCEPT !.freqest =
                            freqest_refresh(@, page_fingerprint,
                                            refresh_changed(cls.status), s.now)],
                        IF refresh_changed(cls.status) THEN "freqest.refresh(True)"
                        ELSE "freqest.refresh(False)", page_fingerprint)
    IN Call([s2 EXCEPT !.scheduler =
                scheduler_set_rate(@, page_fingerprint,
                                   freqest_frequency(s2.freqest, page_fingerprint))],
            "scheduler.set_rate", page_fingerprint)

\* value is None at every call site of the class
_update_page_value(s, page_fingerprint) ==
    LET a_score == opic_get_scores(s.opic, page_fingerprint)[2]
        s1 == Call(s, "opic.get_scores", page_fingerprint)
    IN Call([s1 EXCEPT !.scheduler = scheduler_set_value(@, page_fingerprint, a_score)],
            "scheduler.set_value", page_fingerprint)

\* _add_new_link reading the page value before the score engine knows the page
_add_new_link_value_first(s, link) ==
    LET fingerprint == link.fingerprint
        s1 == Call([s EXCEPT !.graph = graph_add_node(@, fingerprint)],
                   "graph.add_node", fingerprint)
        s2 == _update_page_value(s1, fingerprint)
        s3 == Call([s2 EXCEPT !.opic = opic_add_page(@, fingerprint)],
                   "opic.add_page", fingerprint)
        s4 == Call([s3 EXCEPT !.pages = pages_add(@, fingerprint, link.url, link.domain)],
                   "pages.add", fingerprint)
    IN _update_freqest(s4, fingerprint, NoneBody)

_add_new_link(s, link) ==
    LET fingerprint == link.fingerprint
        s1 == Call([s EXCEPT !.graph = graph_add_node(@, fingerprint)],
                   "graph.add_node", fingerprint)
        s2 == Call([s1 EXCEPT !.opic = opic_add_page(@, fingerprint)],
                   "opic.add_page", fingerprint)
        s3 == Call([s2 EXCEPT !.pages = pages_add(@, fingerprint, link.url, link.domain)],
                   "pages.add", fingerprint)
        s4 == _update_freqest(s3, fingerprint, NoneBody)
    IN _update_page_value(s4, fingerprint)

RECURSIVE add_seeds_loop(_, _)
add_seeds_loop(s, seeds) ==
    IF seeds = <<>> THEN s
    ELSE add_seeds_loop(_add_new_link(s, Link(Head(seeds))), Tail(seeds))

add_seeds(s, seeds) ==
    LET s1 == Call([s EXCEPT !.graph = graph_start_batch(@)], "graph.start_batch", 0)
        s2 == Call([s1 EXCEPT !.pages = pages_start_batch(@)], "pages.start_batch", 0)
        s3 == add_seeds_loop(s2, seeds)
        s4 == Call([s3 EXCEPT !.graph = graph_end_batch(@)], "graph.end_batch", 0)
    IN Call([s4 EXCEPT !.pages = pages_end_batch(@)], "pages.end_batch", 0)

\* the body of "for link in links", graph.end_batch() included
RECURSIVE page_crawled_loop(_, _, _)
page_crawled_loop(s, page_fingerprint, links) ==
    IF links = <<>> THEN s
    ELSE LET s1 == _add_new_link(s, Link(Head(links)))
             link_fingerprint == Head(links)
             s2 == Call([s1 EXCEPT !.graph =
                            graph_add_edge(@, page_fingerprint, link_fingerprint)],
                        "graph.add_edge", link_fingerprint)
             s3 == Call([s2 EXCEPT !.graph = graph_end_batch(@)],
                        "graph.end_batch", 0)
         IN page_crawled_loop(s3, page_fingerprint, Tail(links))

\* the page marked for update only once its frequency has been refreshed
page_crawled_ingest_marks_last(s, page_fingerprint, body, links) ==
    LET s0 == Call(s, "opic.get_scores", page_fingerprint)
        s1 == Call([s0 EXCEPT !.pages = pages_start_batch(@)], "pages.start_batch", 0)
        s2 == Call([s1 EXCEPT !.graph = graph_start_batch(@)], "graph.start_batch", 0)
        s3 == page_crawled_loop(s2, page_fingerprint, links)
        s4 == Call([s3 EXCEPT !.pages = pages_end_batch(@)], "pages.end_batch", 0)
        s5 == _update_freqest(s4, page_fingerprint, body)
    IN Call([s5 EXCEPT !.opic = opic_mark_update(@, page_fingerprint)],
            "opic.mark_update", page_fingerprint)

\* page_crawled up to "remove page from pending requests"
page_crawled_ingest(s, page_fingerprint, body, links) ==
    LET s0 == Call(s, "opic.get_scores", page_fingerprint)
        s1 == Call([s0 EXCEPT !.pages = pages_start_batch(@)], "pages.start_batch", 0)
        s2 == Call([s1 EXCEPT !.graph = graph_start_batch(@)], "graph.start_batch", 0)
        s3 == page_crawled_loop(s2, page_fingerprint, links)
        s4 == Call([s3 EXCEPT !.pages = pages_end_batch(@)], "pages.end_batch", 0)
        s5 == Call([s4 EXCEPT !.opic = opic_mark_update(@, page_fingerprint)],
                   "opic.mark_update", page_fingerprint)
    IN _update_freqest(s5, page_fingerprint, body)

\* the removal without its try/except: the KeyError escapes
pending_remove_unguarded(s, fp) ==
    IF fp \in s.pending
    THEN Call([s EXCEPT !.pending = @ \ {fp}], "pending.remove", fp)
    ELSE [Call(s, "pending.remove: KeyError", fp) EXCEPT !.raised = "KeyError"]

\* try: self._pending_requests.remove(fp)  except KeyError: log
pending_remove(s, fp) ==
    IF fp \in s.pending
    THEN Call([s EXCEPT !.pending = @ \ {fp}], "pending.remove", fp)
    ELSE Call(Call(s, "pending.remove: KeyError", fp),
              "logger.debug: crawled without request", fp)

page_crawled(s, page_fingerprint, body, links) ==
    pending_remove(page_crawled_ingest(s, page_fingerprint, body, links),
                   page_fingerprint)

\* the error also wiping what the frequency estimator learned about the page
\* ------------------------------------------------ a store call that fails
\* _add_new_link in which self._pages.add raises StoreUnavailable: the calls
\* before it have been made, the calls after it are not made
_add_new_link_store_fails(s, link) ==
    LET fingerprint == link.fingerprint
        s1 == Call([s EXCEPT !.graph = graph_add_node(@, fingerprint)],
                   "graph.add_node", fingerprint)
        s2 == Call([s1 EXCEPT !.opic = opic_add_page(@, fingerprint)],
                   "opic.add_page", fingerprint)
    IN [Call(s2, "pages.add: StoreUnavailable", fingerprint)
          EXCEPT !.raised = "StoreUnavailable"]

\* add_seeds in which the store fails on seed number k: add_seeds has no
\* try/finally, the exception leaves it at once
add_seeds_store_fails(s, seeds, k) ==
    LET s1 == Call([s EXCEPT !.graph = graph_start_batch(@)], "graph.start_batch", 0)
        s2 == Call([s1 EXCEPT !.pages = pages_start_batch(@)], "pages.start_batch", 0)
        s3 == add_seeds_loop(s2, SubSeq(seeds, 1, k - 1))
    IN _add_new_link_store_fails(s3, Link(seeds[k]))

\* page_crawled in which the store fails on link number k
page_crawled_store_fails(s, page_fingerprint, body, links, k) ==
    LET s0 == Call(s, "opic.get_scores", page_fingerprint)
        s1 == Call([s0 EXCEPT !.pages = pages_start_batch(@)], "pages.start_batch", 0)
        s2 == Call([s1 EXCEPT !.graph = graph_start_batch(@)], "graph.start_batch", 0)
        s3 == page_crawled_loop(s2, page_fingerprint, SubSeq(links, 1, k - 1))
    IN _add_new_link_store_fails(s3, Link(links[k]))

\* the error also wiping what the frequency estimator learned about the page
request_error_resets_estimate(s, fp) ==
    Call([s EXCEPT !.scheduler = scheduler_delete(@, fp),
                   !.freqest = freqest_add(@, fp, s.now)], "scheduler.delete", fp)
request_error(s, fp) ==
    Call([s EXCEPT !.scheduler = scheduler_delete(@, fp)], "scheduler.delete", fp)

\* def frontier_start(self): pass
frontier_start(s) == s

\* h_scores reads self._scores, an attribute the class never assigns (the
\* score store is handed to OpicHits as db_scores): the read raises
h_scores(s) ==
    [Call(s, "h_scores: AttributeError", 0) EXCEPT !.raised = "AttributeError"]

\* frontier_stop: in test mode the scores are read first and the exception
\* leaves the method; otherwise the five stores are closed in turn.  The
\* operations called after it make their store calls as before.
frontier_stop(s, keep_graph, keep_pages) ==
    IF s.test = "True" THEN h_scores(s)
    ELSE LET s1 == Call([s EXCEPT !.graph = graph_close(@, keep_graph),
                                  !.closed = @ \cup {"graph"}], "graph.close", 0)
             s2 == Call([s1 EXCEPT !.pages = pages_close(@, keep_pages),
                                   !.closed = @ \cup {"pages"}], "pages.close", 0)
             s3 == Call([s2 EXCEPT !.closed = @ \cup {"opic"}], "opic.close", 0)
             s4 == Call([s3 EXCEPT !.closed = @ \cup {"freqest"}], "freqest.close", 0)
         IN Call([s4 EXCEPT !.closed = @ \cup {"scheduler"}], "scheduler.close", 0)

_get_request_from_id(s, page_id) ==
    LET page_data == pages_get(s.pages, page_id)
    IN IF page_data # {}
       THEN LET d == CHOOSE r \in page_data : TRUE
            IN [fingerprint |-> page_id, url |-> d.url, domain |-> d.domain]
       ELSE NullRequest

\* "for page_id in a_updated: self._update_page_value(page_id)"
RECURSIVE update_values(_, _)
update_values(s, a_updated) ==
    IF a_updated = {} THEN s
    ELSE LET page_id == CHOOSE p \in a_updated : \A q \in a_updated : p <= q
         IN update_values(_update_page_value(s, page_id), a_updated \ {page_id})

\* the pages handed out are not recorded
mark_pending_forgotten(s, next_pages) == s
\* self._pending_requests.update(next_pages)
mark_pending(s, next_pages) ==
    Call([s EXCEPT !.pending = @ \cup Range(next_pages)],
         "pending.update", Len(next_pages))

get_next_requests(s, max_n_requests) ==
    LET u == opic_update(s.opic, s.graph)
        s1 == Call([s EXCEPT !.opic = u.opic], "opic.update", 0)
        s2 == update_values(s1, u.a_updated)
        next_pages == scheduler_get_next_pages(s2.scheduler, max_n_requests)
        s3 == Call(s2, "scheduler.get_next_pages", max_n_requests)
        s4 == mark_pending(s3, next_pages)
    IN [s4 EXCEPT !.returned =
           [i \in 1..Len(next_pages) |-> _get_request_from_id(s4, next_pages[i])]]

\* ------------------------------------------------------------ the machine
ZeroFn == [p \in Pages |-> 0]
NoCall == [op |-> "__init__", fp |-> 0, body |-> NoneBody, links |-> <<>>, n |-> 0]

\* the backend right after __init__, as a record
EmptyBackend ==
    [graph |-> [nodes |-> {}, edges |-> {}, snodes |-> {}, sedges |-> {}, batch |-> FALSE],
     pages |-> [rows |-> {}, srows |-> {}, batch |-> FALSE],
     opic |-> [reg |-> {}, h |-> ZeroFn, a |-> ZeroFn, cash |-> ZeroFn, marked |-> {}],
     freqest |-> [reg |-> {}, observed |-> {}, interval |-> ZeroFn,
                  last_change |-> ZeroFn, last_seen |-> ZeroFn],
     pagechange |-> [seen |-> {}, digest |-> [p \in Pages |-> ""]],
     scheduler |-> [entries |-> {}, rate |-> ZeroFn, value |-> ZeroFn],
     pending |-> {}, now |-> 0, trace |-> <<>>, returned |-> <<>>, raised |-> "",
     closed |-> {}, test |-> "unread"]
\* no operation is running concurrently
ConcIdle == [ops |-> <<>>, procs |-> <<>>, commits |-> {}, start |-> EmptyBackend]

Init ==
    /\ graph = [nodes |-> {}, edges |-> {}, snodes |-> {}, sedges |-> {}, batch |-> FALSE]
    /\ pages = [rows |-> {}, srows |-> {}, batch |-> FALSE]
    /\ opic = [reg |-> {}, h |-> ZeroFn, a |-> ZeroFn, cash |-> ZeroFn, marked |-> {}]
    /\ freqest = [reg |-> {}, observed |-> {}, interval |-> ZeroFn,
                  last_change |-> ZeroFn, last_seen |-> ZeroFn]
    /\ pagechange = [seen |-> {}, digest |-> [p \in Pages |-> ""]]
    /\ scheduler = [entries |-> {}, rate |-> ZeroFn, value |-> ZeroFn]
    /\ pending = {}
    /\ now = 0
    /\ nsteps = 0
    /\ call = NoCall
    /\ trace = <<>>
    /\ returned = <<>>
    /\ raised = ""
    /\ outstanding = ZeroFn
    /\ resolved = [p \in Pages |-> {}]
    /\ failed = {}
    /\ crawls = ZeroFn
    /\ repeated = FALSE
    /\ conc = ConcIdle
    /\ closed = {}
    /\ test = "unread"

\* c is the operation b again: add_seeds with the same seeds, page_crawled
\* for the same page with the same body, the same error, the same pull
SameCall(b, c) ==
    /\ c.op = b.op /\ c.fp = b.fp /\ c.body = b.body /\ c.n = b.n
    /\ c.op = "add_seeds" => c.links = b.links

\* the objects after a method has run
Commit(r, c) ==
    /\ nsteps < MaxSteps
    /\ nsteps' = nsteps + 1
    /\ graph' = r.graph
    /\ pages' = r.pages
    /\ opic' = r.opic
    /\ freqest' = r.freqest
    /\ pagechange' = r.pagechange
    /\ scheduler' = r.scheduler
    /\ pending' = r.pending
    /\ closed' = r.closed
    /\ test' = r.test
    /\ trace' = r.trace
    /\ returned' = r.returned
    /\ raised' = r.raised
    /\ call' = c
    /\ repeated' = SameCall(call, c)
    /\ UNCHANGED <<now, conc>>

\* the history of a result (crawl or error) processed for fp
Result(fp, kind) ==
    /\ outstanding' = [outstanding EXCEPT ![fp] = Max(0, @ - 1)]
    /\ resolved' = [resolved EXCEPT ![fp] = IF outstanding[fp] > 0
                                           THEN @ \cup {kind} ELSE @]

AddSeeds ==
    \E seeds \in LinkLists :
        /\ Commit(add_seeds(Backend, seeds),
                  [NoCall EXCEPT !.op = "add_seeds", !.links = seeds])
        /\ UNCHANGED <<outstanding, resolved, failed, crawls>>

PageCrawled ==
    \E fp \in Pages, body \in Bodies, links \in LinkLists :
        /\ Commit(page_crawled(Backend, fp, body, links),
                  [NoCall EXCEPT !.op = "page_crawled", !.fp = fp,
                                 !.body = body, !.links = links])
        /\ Result(fp, "crawled")
        /\ crawls' = [crawls EXCEPT ![fp] = @ + 1]
        /\ UNCHANGED failed

RequestError ==
    \E fp \in Pages :
        /\ Commit(request_error(Backend, fp),
                  [NoCall EXCEPT !.op = "request_error", !.fp = fp])
        /\ Result(fp, "errored")
        /\ failed' = failed \cup {fp}
        /\ UNCHANGED crawls

GetNextRequests ==
    \E max_n_requests \in 0..MaxN :
        LET r == get_next_requests(Backend, max_n_requests)
            out == {q.fingerprint : q \in Range(r.returned) \ {NullRequest}}
        IN /\ Commit(r, [NoCall EXCEPT !.op = "get_next_requests",
                                       !.n = max_n_requests])
           /\ outstanding' = [p \in Pages |-> IF p \in out THEN outstanding[p] + 1
                                              ELSE outstanding[p]]
           /\ resolved' = [p \in Pages |-> IF p \in out THEN {} ELSE resolved[p]]
           /\ UNCHANGED <<failed, crawls>>

FrontierStart ==
    /\ Commit(frontier_start(Backend), [NoCall EXCEPT !.op = "frontier_start"])
    /\ UNCHANGED <<outstanding, resolved, failed, crawls>>

\* self._test is what the constructor was given: drawn the first time it is
\* read, the same ever after.  A store with an open batch keeps or loses
\* what is staged in it.
FrontierStop ==
    \E t \in (IF test = "unread" THEN {"True", "False"} ELSE {test}),
       keep_graph \in (IF graph.batch THEN BOOLEAN ELSE {TRUE}),
       keep_pages \in (IF pages.batch THEN BOOLEAN ELSE {TRUE}) :
        /\ Commit(frontier_stop([Backend EXCEPT !.test = t], keep_graph, keep_pages),
                  [NoCall EXCEPT !.op = "frontier_stop"])
        /\ UNCHANGED <<outstanding, resolved, failed, crawls>>

\* time passes between two operations
Tick ==
    /\ nsteps < MaxSteps
    /\ now < MaxTime
    /\ now' = now + 1
    /\ nsteps' = nsteps + 1
    /\ UNCHANGED <<graph, pages, opic, freqest, pagechange, scheduler, pending,
                   call, trace, returned, raised,
                   outstanding, resolved, failed, crawls, repeated, conc,
                   closed, test>>

Next ==
    \/ AddSeeds \/ PageCrawled \/ RequestError \/ GetNextRequests \/ Tick
    \/ FrontierStart \/ FrontierStop

Spec == Init /\ [][Next]_vars

\* ------------------------------------- the machine with failing store calls
AddSeedsStoreFails ==
    \E seeds \in LinkLists \ {<<>>} :
        \E k \in 1..Len(seeds) :
            /\ Commit(add_seeds_store_fails(Backend, seeds, k),
                      [NoCall EXCEPT !.op = "add_seeds", !.links = seeds])
            /\ UNCHANGED <<outstanding, resolved, failed, crawls>>

\* the body of the response is read only after the loop (line 264), which
\* the failing call never reaches: one body stands for all
PageCrawledStoreFails ==
    \E fp \in Pages, body \in {"a"}, links \in LinkLists \ {<<>>} :
        \E k \in 1..Len(links) :
            /\ Commit(page_crawled_store_fails(Backend, fp, body, links, k),
                      [NoCall EXCEPT !.op = "page_crawled", !.fp = fp,
                                     !.body = body, !.links = links])
            /\ UNCHANGED <<outstanding, resolved, failed, crawls>>

NextFail ==
    \/ AddSeeds \/ PageCrawled \/ RequestError \/ GetNextRequests \/ Tick
    \/ FrontierStart \/ FrontierStop
    \/ AddSeedsStoreFails \/ PageCrawledStoreFails

SpecFail == Init /\ [][NextFail]_vars

\* ---------------------------------------- operations running concurrently
\* An operation as the sequence of the store calls it makes, each call one
\* atomic step.  What a call returns is kept in the locals of the operation
\* (status, rate, a_score) until the call that uses it.
Instr(op, fp, dst, body) == [op |-> op, fp |-> fp, dst |-> dst, body |-> body]
NoLocals == [status |-> "None", rate |-> 0, a_score |-> 0]

\* _update_freqest: classify (when the body is truthy), add or refresh,
\* then set_rate with the frequency read from the estimator
_update_freqest_program(fp, body) ==
    (IF Truthy(body)
     THEN <<Instr("pagechange.update", fp, 0, body), Instr("freqest.update", fp, 0, NoneBody)>>
     ELSE <<Instr("freqest.add", fp, 0, NoneBody)>>)
    \o <<Instr("freqest.frequency", fp, 0, NoneBody),
         Instr("scheduler.set_rate", fp, 0, NoneBody)>>

_update_page_value_program(fp) ==
    <<Instr("opic.get_scores", fp, 0, NoneBody), Instr("scheduler.set_value", fp, 0, NoneBody)>>

_add_new_link_program(fp) ==
    <<Instr("graph.add_node", fp, 0, NoneBody), Instr("opic.add_page", fp, 0, NoneBody),
      Instr("pages.add", fp, 0, NoneBody)>>
    \o _update_freqest_program(fp, NoneBody) \o _update_page_value_program(fp)

RECURSIVE add_seeds_loop_program(_)
add_seeds_loop_program(seeds) ==
    IF seeds = <<>> THEN <<>>
    ELSE _add_new_link_program(Head(seeds)) \o add_seeds_loop_program(Tail(seeds))

add_seeds_program(seeds) ==
    <<Instr("graph.start_batch", 0, 0, NoneBody), Instr("pages.start_batch", 0, 0, NoneBody)>>
    \o add_seeds_loop_program(seeds)
    \o <<Instr("graph.end_batch", 0, 0, NoneBody), Instr("pages.end_batch", 0, 0, NoneBody)>>

RECURSIVE page_crawled_loop_program(_, _)
page_crawled_loop_program(page_fingerprint, links) ==
    IF links = <<>> THEN <<>>
    ELSE _add_new_link_program(Head(links))
         \o <<Instr("graph.add_edge", page_fingerprint, Head(links), NoneBody),
              Instr("graph.end_batch", 0, 0, NoneBody)>>
         \o page_crawled_loop_program(page_fingerprint, Tail(links))

page_crawled_program(page_fingerprint, body, links) ==
    <<Instr("opic.get_scores", page_fingerprint, 0, NoneBody),
      Instr("pages.start_batch", 0, 0, NoneBody), Instr("graph.start_batch", 0, 0, NoneBody)>>
    \o page_crawled_loop_program(page_fingerprint, links)
    \o <<Instr("pages.end_batch", 0, 0, NoneBody),
         Instr("opic.mark_update", page_fingerprint, 0, NoneBody)>>
    \o _update_freqest_program(page_fingerprint, body)
    \o <<Instr("pending.remove", page_fingerprint, 0, NoneBody)>>

\* the program of an operation given as a call record
Program(c) ==
    CASE c.op = "add_seeds" -> add_seeds_program(c.links)
      [] c.op = "page_crawled" -> page_crawled_program(c.fp, c.body, c.links)
      [] OTHER -> <<>>

\* one store call: the backend and the caller's locals after it
Exec(s, loc, i) ==
    LET fp == i.fp
        cls == pagechange_update(s.pagechange, fp, i.body)
        same == [s |-> s, loc |-> loc]
    IN CASE i.op = "graph.start_batch" -> [same EXCEPT !.s.graph = graph_start_batch(@)]
         [] i.op = "graph.end_batch" -> [same EXCEPT !.s.graph = graph_end_batch(@)]
         [] i.op = "pages.start_batch" -> [same EXCEPT !.s.pages = pages_start_batch(@)]
         [] i.op = "pages.end_batch" -> [same EXCEPT !.s.pages = pages_end_batch(@)]
         [] i.op = "graph.add_node" -> [same EXCEPT !.s.graph = graph_add_node(@, fp)]
         [] i.op = "graph.add_edge" -> [same EXCEPT !.s.graph = graph_add_edge(@, fp, i.dst)]
         [] i.op = "opic.add_page" -> [same EXCEPT !.s.opic = opic_add_page(@, fp)]
         [] i.op = "opic.mark_update" -> [same EXCEPT !.s.opic = opic_mark_update(@, fp)]
         [] i.op = "opic.get_scores" ->
                [same EXCEPT !.loc.a_score = opic_get_scores(s.opic, fp)[2]]
         [] i.op = "pages.add" ->
                [same EXCEPT !.s.pages = pages_add(@, fp, Link(fp).url, Link(fp).domain)]
         [] i.op = "pagechange.update" ->
                [same EXCEPT !.s.pagechange = cls.db, !.loc.status = cls.status]
         [] i.op = "freqest.add" -> [same EXCEPT !.s.freqest = freqest_add(@, fp, s.now)]
         [] i.op = "freqest.update" ->
                IF loc.status = "NEW"
                THEN [same EXCEPT !.s.freqest = freqest_add(@, fp, s.now)]
                ELSE [same EXCEPT !.s.freqest =
                         freqest_refresh(@, fp, refresh_changed(loc.status), s.now)]
         [] i.op = "freqest.frequency" ->
                [same EXCEPT !.loc.rate = freqest_frequency(s.freqest, fp)]
         [] i.op = "scheduler.set_rate" ->
                [same EXCEPT !.s.scheduler = scheduler_set_rate(@, fp, loc.rate)]
         [] i.op = "scheduler.set_value" ->
                [same EXCEPT !.s.scheduler = scheduler_set_value(@, fp, loc.a_score)]
         [] i.op = "pending.remove" -> [same EXCEPT !.s.pending = @ \ {fp}]

\* Operation pid makes its next store call.  commits records, for every node
\* (as <<fp, 0>>) and edge that becomes committed in the graph store, the
\* operation whose end_batch committed it (0: committed outside any batch).
ConcStep(c, s, pid) ==
    LET p == c.procs[pid]
        i == Head(p.prog)
        r == Exec(s, p.loc, i)
        items == {<<n, 0>> : n \in r.s.graph.nodes \ s.graph.nodes}
                    \cup (r.s.graph.edges \ s.graph.edges)
        by == IF i.op = "graph.end_batch" THEN pid ELSE 0
    IN [s |-> r.s,
        c |-> [c EXCEPT !.procs[pid] = [prog |-> Tail(p.prog), loc |-> r.loc],
                        !.commits = @ \cup {[item |-> x, by |-> by] : x \in items}]]

\* operation pid run to its end without interruption
RECURSIVE RunProc(_, _, _)
RunProc(c, s, pid) ==
    IF c.procs[pid].prog = <<>> THEN [s |-> s, c |-> c]
    ELSE LET r == ConcStep(c, s, pid) IN RunProc(r.c, r.s, pid)

\* the operations run one after the other in the given order
RECURSIVE RunOrder(_, _, _)
RunOrder(c, s, order) ==
    IF order = <<>> THEN [s |-> s, c |-> c]
    ELSE LET r == RunProc(c, s, Head(order)) IN RunOrder(r.c, r.s, Tail(order))

ProcIds == 1..3
Orders == {o \in [ProcIds -> ProcIds] : \A i, j \in ProcIds : o[i] = o[j] => i = j}
Footprint(c) == (IF c.op = "page_crawled" THEN {c.fp} ELSE {}) \cup Range(c.links)
Crawl(fp, body, links) ==
    [NoCall EXCEPT !.op = "page_crawled", !.fp = fp, !.body = body, !.links = links]

\* The scenarios: add_seeds, page_crawled(P) and, when there is a page left
\* for it, page_crawled(Q), over pairwise disjoint pages and links.
Scenarios ==
    {ops \in [ProcIds -> {[NoCall EXCEPT !.op = "add_seeds", !.links = l] : l \in LinkLists}
                            \cup {Crawl(fp, b, l) : fp \in Pages, b \in Bodies, l \in LinkLists}
                            \cup {NoCall}] :
        /\ ops[1].op = "add_seeds"
        /\ ops[2].op = "page_crawled"
        /\ ops[3].op # "add_seeds"
        /\ ops[3].op = "page_crawled" => ops[2].fp < ops[3].fp
        /\ \A i, j \in ProcIds : i # j => Footprint(ops[i]) \cap Footprint(ops[j]) = {}}

\* the pages to crawl, in increasing order
RECURSIVE CrawledPages(_, _)
CrawledPages(ops, pid) ==
    IF pid > 3 THEN <<>>
    ELSE (IF ops[pid].op = "page_crawled" THEN <<ops[pid].fp>> ELSE <<>>)
         \o CrawledPages(ops, pid + 1)

StartProcs(ops) == [pid \in ProcIds |-> [prog |-> Program(ops[pid]), loc |-> NoLocals]]

\* The operations start on a backend in which the pages to crawl have been
\* seeded and handed out by get_next_requests.
ConcInit ==
    \E ops \in Scenarios :
        LET crawled == CrawledPages(ops, 1)
            s0 == [get_next_requests(add_seeds(EmptyBackend, crawled), Len(crawled))
                      EXCEPT !.trace = <<>>, !.returned = <<>>]
        IN /\ graph = s0.graph
           /\ pages = s0.pages
           /\ opic = s0.opic
           /\ freqest = s0.freqest
           /\ pagechange = s0.pagechange
           /\ scheduler = s0.scheduler
           /\ pending = s0.pending
           /\ conc = [ops |-> ops, procs |-> StartProcs(ops), commits |-> {}, start |-> s0]
           /\ now = 0 /\ nsteps = 0 /\ call = NoCall
           /\ trace = <<>> /\ returned = <<>> /\ raised = ""
           /\ outstanding = [p \in Pages |-> IF p \in s0.pending THEN 1 ELSE 0]
           /\ resolved = [p \in Pages |-> {}]
           /\ failed = {} /\ crawls = ZeroFn /\ repeated = FALSE
           /\ closed = {} /\ test = "unread"

\* one of the running operations makes its next store call
ProcStep ==
    \E pid \in ProcIds :
        /\ conc.procs[pid].prog # <<>>
        /\ LET r == ConcStep(conc, Backend, pid)
           IN /\ graph' = r.s.graph
              /\ pages' = r.s.pages
              /\ opic' = r.s.opic
              /\ freqest' = r.s.freqest
              /\ pagechange' = r.s.pagechange
              /\ scheduler' = r.s.scheduler
              /\ pending' = r.s.pending
              /\ conc' = r.c
        /\ UNCHANGED <<now, nsteps, call, trace, returned, raised,
                       outstanding, resolved, failed, crawls, repeated,
                       closed, test>>

ConcNext == ProcStep

SpecConc == ConcInit /\ [][ConcNext]_vars

\* =========================================================================
\* Properties
\* =========================================================================
Count(q, name) == Cardinality({i \in DOMAIN q : q[i][1] = name})
\* the fingerprints of the requests in a returned list
Fingerprints(q) == {q[i].fingerprint : i \in {j \in DOMAIN q : q[j] # NullRequest}}
\* this step is a run of the top-level operation op
OpStep(op) == call'.op = op /\ nsteps' = nsteps + 1 /\ now' = now

\* C1: no double dispatch.  A fingerprint returned by get_next_requests is
\* not returned by a later get_next_requests before a page_crawled or a
\* request_error for it has been processed: no page ever has two dispatches
\* awaiting a result.
C1_NoDoubleDispatch == \A p \in Pages : outstanding[p] <= 1

\* C2: pending covers every outstanding dispatch.  A page with more
\* dispatches than processed results is a member of _pending_requests.
C2_PendingCoversOutstanding == \A p \in Pages : outstanding[p] > 0 => p \in pending

\* C3: pending holds only unresolved dispatches.  Once a result (page_crawled
\* or request_error) of a dispatched page has been processed and the page has
\* not been dispatched again, the page is not in _pending_requests.
C3_ResolvedLeavesPending == \A p \in Pages : resolved[p] # {} => p \notin pending

\* C4: after request_error(P) has been processed no later get_next_requests
\* returns P, whatever add_seeds, page_crawled and score updates follow.
C4_ErroredNeverReturned ==
    call.op = "get_next_requests" => Fingerprints(returned) \cap failed = {}

\* C5: a get_next_requests(max_n_requests) call runs exactly one update
\* cycle of the score engine, returns at most max_n_requests requests, and
\* every fingerprint it returned is in _pending_requests when it returns.
C5_PullContract ==
    call.op = "get_next_requests" =>
        /\ Count(trace, "opic.update") = 1
        /\ Len(returned) <= call.n
        /\ Fingerprints(returned) \subseteq pending

C5_Witness ==
    /\ call.op = "get_next_requests"
    /\ call.n > 1
    /\ Len(returned) = call.n
    /\ NullRequest \notin Range(returned)
\* what registration writes: the graph, the scores, the frequency estimates
\* and the scheduler entries
RegistrationView ==
    [nodes |-> graph_nodes(graph), edges |-> graph_edges(graph),
     h |-> opic.h, a |-> opic.a, cash |-> opic.cash, known |-> opic.reg,
     frequency |-> [p \in Pages |-> freqest_frequency(freqest, p)],
     estimated |-> freqest.reg,
     scheduler |-> scheduler]

\* C6: add_seeds is idempotent.  A second add_seeds with the seeds of the
\* add_seeds before it leaves the graph nodes and edges, the scores, the
\* frequency estimates and the scheduler entries as the first call left them.
C6_AddSeedsIdempotent ==
    [][(call.op = "add_seeds" /\ OpStep("add_seeds") /\ call'.links = call.links)
        => RegistrationView' = RegistrationView]_vars

C6_Witness ==
    /\ call.op = "add_seeds"
    /\ repeated
    /\ call.links # <<>>
    /\ \E p \in Range(call.links) : crawls[p] > 0

\* C7: after every top-level operation every node of the graph store has a
\* scheduler entry unless request_error has deleted it, and no scheduler
\* entry exists for a fingerprint that is not a graph node.
C7_GraphMatchesScheduler ==
    /\ \A p \in graph_nodes(graph) : p \in scheduler.entries \/ p \in failed
    /\ scheduler.entries \subseteq graph_nodes(graph)

\* the calls of a trace on the stores (not those on the pending set or the log)
StoreCalls(q) ==
    SelectSeq(q, LAMBDA e : e[1] \notin {"pending.remove", "pending.remove: KeyError",
                                         "logger.debug: crawled without request"})

\* C8: a duplicate or unsolicited completion is tolerated.  page_crawled for
\* a page that is not in _pending_requests raises nothing, leaves
\* _pending_requests as it is and makes the store calls, with the effects, of
\* the same completion of a pending page; page_crawled for a pending page
\* removes that page, and only it, from _pending_requests.
C8_UnsolicitedTolerated ==
    [][OpStep("page_crawled") =>
        LET fp == call'.fp
            solicited == page_crawled([Backend EXCEPT !.pending = @ \cup {fp}],
                                      fp, call'.body, call'.links)
        IN /\ raised' = ""
           /\ fp \in pending => pending' = pending \ {fp}
           /\ fp \notin pending =>
                /\ pending' = pending
                /\ graph' = solicited.graph
                /\ pages' = solicited.pages
                /\ opic' = solicited.opic
                /\ freqest' = solicited.freqest
                /\ pagechange' = solicited.pagechange
                /\ scheduler' = solicited.scheduler
                /\ StoreCalls(trace') = StoreCalls(solicited.trace)
                /\ <<"opic.mark_update", fp>> \in Range(trace')
                /\ <<"scheduler.set_rate", fp>> \in Range(trace')]_vars

C8_Witness ==
    /\ call.op = "page_crawled"
    /\ raised = ""
    /\ <<"logger.debug: crawled without request", call.fp>> \in Range(trace)
    /\ call.links # <<>>
    /\ pending # {}

\* C9: registration precedes scheduling.  Every element of the list
\* get_next_requests returns is a request, never a null entry, for a
\* fingerprint registered in the graph store, the score engine, the frequency
\* estimator and the page store.
C9_ReturnedAreRegistered ==
    call.op = "get_next_requests" =>
        /\ NullRequest \notin Range(returned)
        /\ \A p \in Fingerprints(returned) :
              /\ p \in graph_nodes(graph)
              /\ p \in opic.reg
              /\ p \in freqest.reg
              /\ pages_get(pages, p) # {}

\* C10: two successive page_crawled calls for a never-crawled page B with
\* the same body: the second call leaves Frequency(B), and the rate the
\* scheduler holds for B, as the first call left them.
C10_SameBodyKeepsFrequency ==
    [][(/\ call.op = "page_crawled"
        /\ OpStep("page_crawled")
        /\ call'.fp = call.fp
        /\ call'.body = call.body
        /\ crawls[call.fp] = 1)
        => /\ freqest_frequency(freqest', call.fp) = freqest_frequency(freqest, call.fp)
           /\ call.fp \in scheduler'.entries
           /\ scheduler'.rate[call.fp] = scheduler.rate[call.fp]
           /\ scheduler'.rate[call.fp] = freqest_frequency(freqest', call.fp)]_vars

C10_Witness ==
    /\ call.op = "page_crawled"
    /\ repeated
    /\ crawls[call.fp] = 2
    /\ Truthy(call.body)
    /\ <<"freqest.refresh(False)", call.fp>> \in Range(trace)
    /\ now > freqest.last_change[call.fp]

\* C11: request_error(P) changes only the scheduler entry of P.  It makes one
\* store call, scheduler.delete(P), and leaves the graph store (nodes and
\* edges), the page store, the scores, the frequency estimates and the
\* scheduler entries (membership, rate and value) of every other page as
\* they were.
C11_RequestErrorFrame ==
    [][OpStep("request_error") =>
        /\ trace' = <<(<<"scheduler.delete", call'.fp>>)>>
        /\ graph' = graph
        /\ pages' = pages
        /\ opic' = opic
        /\ freqest' = freqest
        /\ call'.fp \notin scheduler'.entries
        /\ \A q \in Pages \ {call'.fp} :
              /\ q \in scheduler'.entries <=> q \in scheduler.entries
              /\ scheduler'.rate[q] = scheduler.rate[q]
              /\ scheduler'.value[q] = scheduler.value[q]]_vars

\* request_error for a page that is a graph node with a learned frequency,
\* while another page is scheduled
C11_Witness ==
    /\ call.op = "request_error"
    /\ call.fp \in graph_nodes(graph)
    /\ call.fp \in freqest.observed
    /\ call.fp \notin scheduler.entries
    /\ scheduler.entries # {}

\* the positions in a trace of the calls named name
Positions(q, name) == {i \in DOMAIN q : q[i][1] = name}
\* the fingerprints registered so far: _add_new_link is the only caller of
\* opic.add_page, and nothing takes a page out of the score engine
Registered == opic.reg

\* C13: an ingestion operation on a never-registered fingerprint is a no-op
\* for it.  page_crawled for a fingerprint that was never registered (by
\* add_seeds or as a discovered link) creates no graph edge from it, no
\* frequency-estimator entry and no scheduler entry for it; request_error
\* for a never-registered fingerprint changes no state.
C13_UnregisteredIsNoOp ==
    [][/\ (/\ OpStep("page_crawled")
           /\ call'.fp \notin Registered
           /\ call'.fp \notin Range(call'.links))
          => /\ \A q \in Pages : <<call'.fp, q>> \notin graph_edges(graph')
             /\ call'.fp \notin freqest'.reg
             /\ call'.fp \notin scheduler'.entries
       /\ (OpStep("request_error") /\ call'.fp \notin Registered)
          => <<graph, pages, opic, freqest, pagechange, scheduler, pending>>'
               = <<graph, pages, opic, freqest, pagechange, scheduler, pending>>
      ]_vars

\* the calls named in adds all lie inside one start/end bracket
ScopedBatch(q, start, end, adds) ==
    /\ Count(q, start) = 1
    /\ Count(q, end) = 1
    /\ \A i \in DOMAIN q : q[i][1] \in adds =>
          /\ \A b \in Positions(q, start) : b < i
          /\ \A e \in Positions(q, end) : i < e

\* C16: add_seeds and page_crawled wrap their additions in one scoped batch
\* per store.  Whatever the number of links or seeds, start_batch and
\* end_batch of the graph store are each called exactly once with every
\* add_node and add_edge between them, the same holds for the page store and
\* its add calls, and no batch is open when the operation returns.
C16_OneScopedBatch ==
    call.op \in {"add_seeds", "page_crawled"} =>
        /\ ScopedBatch(trace, "graph.start_batch", "graph.end_batch",
                       {"graph.add_node", "graph.add_edge"})
        /\ ScopedBatch(trace, "pages.start_batch", "pages.end_batch", {"pages.add"})
        /\ ~graph.batch
        /\ ~pages.batch

\* what the frequency estimator holds about page p
EstimatorEntry(f, p) ==
    [known |-> p \in f.reg, observed |-> p \in f.observed, interval |-> f.interval[p],
     last_change |-> f.last_change[p], last_seen |-> f.last_seen[p]]
FreqestCalls == {"freqest.add", "freqest.refresh(True)", "freqest.refresh(False)"}

\* C17: priorities are refreshed right after the signal that changes them.
\* (i) An operation that changes what the frequency estimator holds about a
\* page (add or refresh) sets the scheduler rate of that page after its last
\* estimator call, and after every top-level operation the rate of every
\* scheduled page is the estimator's frequency for it.  (ii) In
\* get_next_requests every page whose authority the score update changed has
\* its scheduler value set, to its authority, before the top-K selection.
C17_PrioritiesRefreshed ==
    [][(nsteps' = nsteps + 1 /\ now' = now) =>
        /\ \A p \in Pages :
              EstimatorEntry(freqest', p) # EstimatorEntry(freqest, p) =>
                 \E i \in DOMAIN trace' :
                    /\ trace'[i] = <<"scheduler.set_rate", p>>
                    /\ \A j \in DOMAIN trace' :
                          (trace'[j][1] \in FreqestCalls /\ trace'[j][2] = p) => j < i
        /\ \A p \in scheduler'.entries :
              scheduler'.rate[p] = freqest_frequency(freqest', p)
        /\ call'.op = "get_next_requests" =>
              \A p \in Pages :
                 opic'.a[p] # opic.a[p] =>
                    /\ \E i \in DOMAIN trace' :
                          /\ trace'[i] = <<"scheduler.set_value", p>>
                          /\ \A k \in Positions(trace', "scheduler.get_next_pages") : i < k
                    /\ scheduler'.value[p] = opic'.a[p]]_vars

\* the estimator calls made for page fp, in order
EstimatorCallsFor(q, fp) ==
    SelectSeq(q, LAMBDA e : e[1] \in FreqestCalls /\ e[2] = fp)
\* the estimator call a verdict of the change detector asks for
CallForVerdict(verdict) ==
    CASE verdict = "NEW" -> "freqest.add"
      [] verdict = "UPDATED" -> "freqest.refresh(True)"
      [] verdict = "UNCHANGED" -> "freqest.refresh(False)"

\* C18: every crawl result is classified exactly once, whatever its body
\* (the empty body included), and the verdict determines the estimator call
\* page_crawled makes for the page: add for NEW, refresh(changed=true) for
\* UPDATED, refresh(changed=false) for UNCHANGED.
C18_ClassifiedOnce ==
    [][OpStep("page_crawled") =>
        LET fp == call'.fp
            verdict == pagechange_update(pagechange, fp, call'.body).status
            calls == EstimatorCallsFor(trace', fp)
        IN /\ Count(trace', "pagechange.update") = 1
           /\ <<"pagechange.update", fp>> \in Range(trace')
           /\ calls # <<>>
           /\ calls[Len(calls)][1] = CallForVerdict(verdict)]_vars

\* C19: a page is registered exactly once.  An operation that sights an
\* already-registered fingerprint again, as a seed or as a link of another
\* page's crawl result, makes no opic.add_page and no freqest.add call for
\* it, and leaves what the estimator holds about it (frequency, observation
\* history) and its scheduler rate unchanged.
C19_RegisteredOnce ==
    [][(OpStep("add_seeds") \/ OpStep("page_crawled")) =>
        \A q \in Registered \ {call'.fp} :
           /\ <<"opic.add_page", q>> \notin Range(trace')
           /\ <<"freqest.add", q>> \notin Range(trace')
           /\ EstimatorEntry(freqest', q) = EstimatorEntry(freqest, q)
           /\ freqest_frequency(freqest', q) = freqest_frequency(freqest, q)
           /\ q \in scheduler.entries => scheduler'.rate[q] = scheduler.rate[q]]_vars

\* C20: the steps of one page_crawled call happen in the order: the nodes
\* and edges of the discovered links are added to the graph store; the
\* crawled page is marked for update in the score engine (once); the body
\* is classified by the change detector; the frequency estimator is updated
\* for the page; the scheduler rate of the page is set; and only then is the
\* page's pending mark cleared (once).  Every classification the call makes
\* lies between the mark and the estimator update.
C20_StepOrder ==
    call.op = "page_crawled" =>
        LET fp == call.fp
            adds == Positions(trace, "graph.add_node") \cup Positions(trace, "graph.add_edge")
            mark == Positions(trace, "opic.mark_update")
            classify == Positions(trace, "pagechange.update")
            clear == Positions(trace, "pending.remove")
                        \cup Positions(trace, "pending.remove: KeyError")
        IN /\ Cardinality(mark) = 1
           /\ Cardinality(clear) = 1
           /\ \A m \in mark :
                 /\ trace[m][2] = fp
                 /\ \A a \in adds : a < m
                 /\ \A c \in classify : m < c
                 /\ \E e \in DOMAIN trace, r \in DOMAIN trace :
                       /\ trace[e][1] \in FreqestCalls /\ trace[e][2] = fp
                       /\ trace[r] = <<"scheduler.set_rate", fp>>
                       /\ m < e /\ e < r
                       /\ \A c \in classify : c < e
                       /\ \A k \in clear : r < k
                 /\ \A i \in DOMAIN trace, k \in clear :
                       (i > m /\ trace[i][1] \in FreqestCalls \cup {"scheduler.set_rate",
                                                                  "pagechange.update"}) => i < k

\* a crawl result with links and a body for a pending page
C20_Witness ==
    /\ call.op = "page_crawled"
    /\ Len(call.links) > 1
    /\ Truthy(call.body)
    /\ <<"pagechange.update", call.fp>> \in Range(trace)
    /\ <<"pending.remove", call.fp>> \in Range(trace)

\* C12: a store failure partway through the ingestion batch of add_seeds or
\* page_crawled is propagated to the caller, none of the additions of that
\* batch is visible in the graph store or the page store afterwards, and no
\* batch is left open for a later operation to commit.
C12_FailedBatchRolledBack ==
    [][(nsteps' = nsteps + 1 /\ raised' = "StoreUnavailable") =>
        /\ call'.op \in {"add_seeds", "page_crawled"}
        /\ graph_nodes(graph') = graph_nodes(graph)
        /\ graph_edges(graph') = graph_edges(graph)
        /\ pages_rows(pages') = pages_rows(pages)
        /\ ~graph'.batch
        /\ ~pages'.batch]_vars

\* the stores of a backend record, without the log of the calls
Stores(s) == [s EXCEPT !.trace = <<>>, !.returned = <<>>, !.raised = ""]
\* The programs make the store calls of the methods: an operation's program
\* run alone leaves the backend as the method leaves it.
ProgramsFollowMethods ==
    \A pid \in ProcIds :
       LET c == conc.ops[pid]
           alone == RunProc([procs |-> StartProcs(conc.ops), commits |-> {}],
                            conc.start, pid).s
       IN /\ c.op = "add_seeds" => Stores(alone) = Stores(add_seeds(conc.start, c.links))
          /\ c.op = "page_crawled" =>
                Stores(alone) = Stores(page_crawled(conc.start, c.fp, c.body, c.links))

\* what C14 compares: the graph store, what was committed inside which batch
\* bracket, the frequency estimates, the scheduler entries, the pending set
ConcView(s, c) ==
    [graph |-> s.graph, commits |-> c.commits, freqest |-> s.freqest,
     scheduler |-> s.scheduler, pending |-> s.pending]
AllDone == \A pid \in ProcIds : conc.procs[pid].prog = <<>>
SerialViews ==
    {LET r == RunOrder([procs |-> StartProcs(conc.ops), commits |-> {}], conc.start, o)
     IN ConcView(r.s, r.c) : o \in {[i \in ProcIds |-> f[i]] : f \in Orders}}

\* C14: operations over different pages may run concurrently.  With every
\* store call atomic, each interleaving of the store calls of add_seeds,
\* page_crawled(P) and page_crawled(Q) over disjoint pages and links ends
\* with the graph contents (which additions were committed inside which
\* batch bracket included), frequency estimates, scheduler entries and
\* pending set of some serial execution of the same operations.
C14_InterleavingsSerializable ==
    AllDone => ConcView(Backend, conc) \in SerialViews
====
